---- MODULE Spec2Model ----
(* Model of the RangeSet class of day15/main.py: a list of closed integer  *)
(* ranges kept simplified by add(), measured by __len__, walked by         *)
(* __iter__ and complemented within a bound by inverse_of().               *)
EXTENDS Integers, Sequences, FiniteSets, TLC

\* Range bounds are drawn from 0..MaxV.
MaxV == 5

\* The constructor is given at most MaxBatch ranges.
MaxBatch == 2

Values == 0..MaxV

\* Every pair of ints the callers may pass as a Range, valid or inverted.
Pairs == Values \X Values

Batches == UNION {[1..n -> Pairs] : n \in 0..MaxBatch}

\* The batches of valid ranges the constructor is studied on by itself:
\* at most MaxLen ranges with bounds in 0..MaxBound.
MaxBound == 8

MaxLen == 2

ValidRanges == {r \in (0..MaxBound) \X (0..MaxBound) : r[1] <= r[2]}

ValidBatches == UNION {[1..n -> ValidRanges] : n \in 0..MaxLen}

Max(a, b) == IF a >= b THEN a ELSE b

Min(a, b) == IF a <= b THEN a ELSE b

\* Python's ordering of 2-tuples, as used by list.sort().
TupleLE(a, b) == a[1] < b[1] \/ (a[1] = b[1] /\ a[2] <= b[2])

RECURSIVE Insert(_, _)
Insert(r, s) ==
    IF s = <<>> THEN <<r>>
    ELSE IF TupleLE(r, Head(s)) THEN <<r>> \o s
    ELSE <<Head(s)>> \o Insert(r, Tail(s))

\* self.ranges.sort()
RECURSIVE Sort(_)
Sort(s) == IF s = <<>> THEN <<>> ELSE Insert(Head(s), Sort(Tail(s)))

\* Mutation of the merge loop: touching ranges are not merged.
RECURSIVE MergeNoTouch(_, _)
MergeNoTouch(prev_range, rest) ==
    IF rest = <<>> THEN <<prev_range>>
    ELSE LET next_range == Head(rest) IN
         IF prev_range[2] >= next_range[1]
         THEN MergeNoTouch(<<prev_range[1], Max(prev_range[2], next_range[2])>>, Tail(rest))
         ELSE <<prev_range>> \o MergeNoTouch(next_range, Tail(rest))

\* Mutation of the merge loop: the merged range ends where the next one ends.
RECURSIVE MergeNoMax(_, _)
MergeNoMax(prev_range, rest) ==
    IF rest = <<>> THEN <<prev_range>>
    ELSE LET next_range == Head(rest) IN
         IF prev_range[2] >= next_range[1] - 1
         THEN MergeNoMax(<<prev_range[1], next_range[2]>>, Tail(rest))
         ELSE <<prev_range>> \o MergeNoMax(next_range, Tail(rest))

\* The loop of _simplify over the sorted list, collecting what it yields.
RECURSIVE Merge(_, _)
Merge(prev_range, rest) ==
    IF rest = <<>> THEN <<prev_range>>
    ELSE LET next_range == Head(rest) IN
         IF prev_range[2] >= next_range[1] - 1
         THEN Merge(<<prev_range[1], Max(prev_range[2], next_range[2])>>, Tail(rest))
         ELSE <<prev_range>> \o Merge(next_range, Tail(rest))

\* list(self._simplify()) on a non-empty list.
Simplify(rs) == LET sorted == Sort(rs) IN Merge(Head(sorted), Tail(sorted))

\* Mutation of add: the assertion is missing.
add_noassert(rs, range) == [err |-> FALSE, ranges |-> Simplify(Append(rs, range))]

\* Mutation of add: the list is not simplified after the append.
add_nosimplify(rs, range) ==
    IF range[1] <= range[2]
    THEN [err |-> FALSE, ranges |-> Append(rs, range)]
    ELSE [err |-> TRUE, ranges |-> rs]

\* RangeSet.add: the assertion, the append and the simplification.
add(rs, range) ==
    IF range[1] <= range[2]
    THEN [err |-> FALSE, ranges |-> Simplify(Append(rs, range))]
    ELSE [err |-> TRUE, ranges |-> rs]

\* RangeSet.__init__: add each range in turn; a failing add ends it.
RECURSIVE InitFrom(_, _)
InitFrom(rs, batch) ==
    IF batch = <<>> THEN [err |-> FALSE, ranges |-> rs]
    ELSE LET a == add(rs, Head(batch)) IN
         IF a.err THEN a ELSE InitFrom(a.ranges, Tail(batch))

RangeSet(batch) == InitFrom(<<>>, batch)

\* Mutation of __len__: each range counts b - a ints.
RECURSIVE len_offbyone(_)
len_offbyone(rs) ==
    IF rs = <<>> THEN 0 ELSE (Head(rs)[2] - Head(rs)[1]) + len_offbyone(Tail(rs))

\* RangeSet.__len__: sum(b - a + 1 for a, b in self.ranges)
RECURSIVE len(_)
len(rs) ==
    IF rs = <<>> THEN 0 ELSE (Head(rs)[2] - Head(rs)[1] + 1) + len(Tail(rs))

\* RangeSet.__bool__
bool(rs) == len(rs) # 0

\* list(range(first, last + 1)): empty when last < first.
RECURSIVE PyRange(_, _)
PyRange(first, last) ==
    IF first > last THEN <<>> ELSE <<first>> \o PyRange(first + 1, last)

\* RangeSet.__iter__, fully consumed.
RECURSIVE iter(_)
iter(rs) ==
    IF rs = <<>> THEN <<>> ELSE PyRange(Head(rs)[1], Head(rs)[2]) \o iter(Tail(rs))

\* pairwise(self.ranges) mapped to the range between each pair.
Between(rs) == [i \in 1..(Len(rs) - 1) |-> <<rs[i][2] + 1, rs[i + 1][1] - 1>>]

\* Mutation of inverse_ranges: the trailing range is yielded when the last
\* range ends at the bound's end as well.
inverse_ranges_le(rs, min_max_range) ==
    IF Len(rs) = 0 THEN <<>>
    ELSE LET first_range == rs[1]
             last_range == rs[Len(rs)]
         IN (IF first_range[1] > min_max_range[1]
             THEN <<<<min_max_range[1], Min(min_max_range[2], first_range[1])>>>>
             ELSE <<>>)
            \o Between(rs)
            \o (IF last_range[2] <= min_max_range[2]
                THEN <<<<Max(last_range[2], min_max_range[1]), min_max_range[2]>>>>
                ELSE <<>>)

\* inverse_of.inverse_ranges, fully consumed. A generator's return value is
\* not yielded, so an empty RangeSet generates nothing.
inverse_ranges(rs, min_max_range) ==
    IF Len(rs) = 0 THEN <<>>
    ELSE LET first_range == rs[1]
             last_range == rs[Len(rs)]
         IN (IF first_range[1] > min_max_range[1]
             THEN <<<<min_max_range[1], Min(min_max_range[2], first_range[1])>>>>
             ELSE <<>>)
            \o Between(rs)
            \o (IF last_range[2] < min_max_range[2]
                THEN <<<<Max(last_range[2], min_max_range[1]), min_max_range[2]>>>>
                ELSE <<>>)

too_far_left(r, min_max_range) == r[2] < min_max_range[1]

not_too_far_right(r, min_max_range) == r[1] <= min_max_range[2]

\* dropwhile(too_far_left, it)
RECURSIVE DropWhile(_, _)
DropWhile(s, min_max_range) ==
    IF s = <<>> THEN <<>>
    ELSE IF too_far_left(Head(s), min_max_range) THEN DropWhile(Tail(s), min_max_range)
    ELSE s

\* takewhile(not_too_far_right, it)
RECURSIVE TakeWhile(_, _)
TakeWhile(s, min_max_range) ==
    IF s = <<>> THEN <<>>
    ELSE IF not_too_far_right(Head(s), min_max_range)
         THEN <<Head(s)>> \o TakeWhile(Tail(s), min_max_range)
    ELSE <<>>

\* inverse_of.restrict_ranges: drop, take, clip the first, then clip the last.
restrict_ranges(s, min_max_range) ==
    LET unclipped_ranges == TakeWhile(DropWhile(s, min_max_range), min_max_range) IN
    IF unclipped_ranges = <<>> THEN unclipped_ranges
    ELSE LET c1 == [unclipped_ranges EXCEPT
                      ![1] = <<Max(unclipped_ranges[1][1], min_max_range[1]),
                               unclipped_ranges[1][2]>>]
             n == Len(c1)
         IN [c1 EXCEPT ![n] = <<c1[n][1], Min(c1[n][2], min_max_range[2])>>]

\* RangeSet.inverse_of: the ranges of the RangeSet it returns, or the error
\* its constructor raises.
inverse_of(rs, min_max_range) ==
    RangeSet(restrict_ranges(inverse_ranges(rs, min_max_range), min_max_range))

\* Sensor coordinates and rows of the single-sensor count are drawn from
\* 0..MaxCoord.
MaxCoord == 10

Coords == 0..MaxCoord

\* Pos(x, y)
Pos(x, y) == [x |-> x, y |-> y]

\* Sensor(pos, nearest_beacon)
Sensor(pos, nearest_beacon) == [pos |-> pos, nearest_beacon |-> nearest_beacon]

\* abs()
Abs(n) == IF n < 0 THEN 0 - n ELSE n

manhattan_distance(pos1, pos2) == Abs(pos1.x - pos2.x) + Abs(pos1.y - pos2.y)

\* Mutation of get_cover_set: a sensor whose radius on the row is 0 is skipped too.
RECURSIVE get_cover_set_skip0(_, _, _)
get_cover_set_skip0(cover_set, sensors, row) ==
    IF sensors = <<>> THEN [err |-> FALSE, ranges |-> cover_set]
    ELSE LET sensor == Head(sensors)
             cover_distance == manhattan_distance(sensor.pos, sensor.nearest_beacon)
             row_cover_radius == cover_distance - Abs(sensor.pos.y - row)
         IN IF row_cover_radius <= 0 THEN get_cover_set_skip0(cover_set, Tail(sensors), row)
            ELSE LET row_cover_range == <<sensor.pos.x - row_cover_radius,
                                          sensor.pos.x + row_cover_radius>>
                     a == add(cover_set, row_cover_range)
                 IN IF a.err THEN a ELSE get_cover_set_skip0(a.ranges, Tail(sensors), row)

\* The loop of get_cover_set over the sensors still to visit, cover_set
\* being the ranges added so far.
RECURSIVE get_cover_set_from(_, _, _)
get_cover_set_from(cover_set, sensors, row) ==
    IF sensors = <<>> THEN [err |-> FALSE, ranges |-> cover_set]
    ELSE LET sensor == Head(sensors)
             cover_distance == manhattan_distance(sensor.pos, sensor.nearest_beacon)
             row_cover_radius == cover_distance - Abs(sensor.pos.y - row)
         IN IF row_cover_radius < 0 THEN get_cover_set_from(cover_set, Tail(sensors), row)
            ELSE LET row_cover_range == <<sensor.pos.x - row_cover_radius,
                                          sensor.pos.x + row_cover_radius>>
                     a == add(cover_set, row_cover_range)
                 IN IF a.err THEN a ELSE get_cover_set_from(a.ranges, Tail(sensors), row)

\* get_cover_set: the ranges of the RangeSet it returns.
get_cover_set(sensors, row) == get_cover_set_from(RangeSet(<<>>).ranges, sensors, row)

\* count_covered_locations: the count it returns, or the error raised.
count_covered_locations(sensors, row) ==
    LET rset == get_cover_set(sensors, row) IN
    [err |-> rset.err, value |-> IF rset.err THEN 0 ELSE len(rset.ranges)]

\* The loop of find_uncovered_positions from row y to the last row, fully
\* consumed: the positions it yields, or the error raised on the way.
RECURSIVE find_uncovered_from(_, _, _, _)
find_uncovered_from(sensors, x_range, y, y_last) ==
    IF y > y_last THEN [err |-> FALSE, value |-> <<>>]
    ELSE LET cover_set == get_cover_set(sensors, y) IN
         IF cover_set.err THEN [err |-> TRUE, value |-> <<>>]
         ELSE LET uncovered_set == inverse_of(cover_set.ranges, x_range) IN
              IF uncovered_set.err THEN [err |-> TRUE, value |-> <<>>]
              ELSE LET xs == iter(uncovered_set.ranges)
                       row_positions == [i \in 1..Len(xs) |-> Pos(xs[i], y)]
                       rest == find_uncovered_from(sensors, x_range, y + 1, y_last)
                   IN IF rest.err THEN rest
                      ELSE [err |-> FALSE, value |-> row_positions \o rest.value]

\* list(find_uncovered_positions(sensors, x_range, y_range))
find_uncovered_positions(sensors, x_range, y_range) ==
    find_uncovered_from(sensors, x_range, y_range[1], y_range[2])

VARIABLES
    ranges,   \* self.ranges of the RangeSet under test
    op,       \* the last call made: "none", "init", "add", "len", "bool", "iter", "inverse_of"
    arg,      \* the argument of the last call
    pre,      \* self.ranges before the last call
    err,      \* whether the last call raised AssertionError
    ret       \* what the last call returned (the ranges of a returned RangeSet)

vars == <<ranges, op, arg, pre, err, ret>>

None == <<>>

\* No RangeSet has been constructed yet.
Init ==
    /\ ranges = <<>>
    /\ op = "none"
    /\ arg = None
    /\ pre = <<>>
    /\ err = FALSE
    /\ ret = None

\* RangeSet(batch)
Construct(batch) ==
    /\ op = "none"
    /\ LET r == RangeSet(batch) IN
        /\ ranges' = r.ranges
        /\ err' = r.err
    /\ op' = "init"
    /\ arg' = batch
    /\ pre' = <<>>
    /\ ret' = None

\* A RangeSet exists: its constructor has returned.
Constructed == op # "none" /\ ~(op = "init" /\ err)

\* S.add(range)
Add(range) ==
    /\ Constructed
    /\ LET r == add(ranges, range) IN
        /\ ranges' = r.ranges
        /\ err' = r.err
    /\ op' = "add"
    /\ arg' = range
    /\ pre' = ranges
    /\ ret' = None

\* len(S)
LenCall ==
    /\ Constructed
    /\ op' = "len"
    /\ ret' = len(ranges)
    /\ arg' = None
    /\ pre' = ranges
    /\ err' = FALSE
    /\ UNCHANGED ranges

\* bool(S)
BoolCall ==
    /\ Constructed
    /\ op' = "bool"
    /\ ret' = bool(ranges)
    /\ arg' = None
    /\ pre' = ranges
    /\ err' = FALSE
    /\ UNCHANGED ranges

\* list(S)
IterCall ==
    /\ Constructed
    /\ op' = "iter"
    /\ ret' = iter(ranges)
    /\ arg' = None
    /\ pre' = ranges
    /\ err' = FALSE
    /\ UNCHANGED ranges

\* S.inverse_of(min_max_range)
InverseOf(min_max_range) ==
    /\ Constructed
    /\ LET r == inverse_of(ranges, min_max_range) IN
        /\ ret' = (IF r.err THEN None ELSE r.ranges)
        /\ err' = r.err
    /\ op' = "inverse_of"
    /\ arg' = min_max_range
    /\ pre' = ranges
    /\ UNCHANGED ranges

Next ==
    \/ \E batch \in Batches : Construct(batch)
    \/ \E range \in Pairs : Add(range)
    \/ LenCall
    \/ BoolCall
    \/ IterCall
    \/ \E min_max_range \in Pairs : InverseOf(min_max_range)

Spec == Init /\ [][Next]_vars

\* The constructor by itself, applied to a batch chosen at the start.
InitBatch ==
    /\ ranges = <<>>
    /\ op = "none"
    /\ arg \in ValidBatches
    /\ pre = <<>>
    /\ err = FALSE
    /\ ret = None

NextBatch == Construct(arg)

SpecBatch == InitBatch /\ [][NextBatch]_vars

\* The inputs of the single-sensor count: one sensor and a row.
CountInputs ==
    {[sensors |-> <<Sensor(Pos(sx, sy), Pos(bx, by))>>, row |-> row] :
        sx \in Coords, sy \in Coords, bx \in Coords, by \in Coords, row \in Coords}

\* count_covered_locations by itself, applied to an input chosen at the start.
InitCount ==
    /\ ranges = <<>>
    /\ op = "none"
    /\ arg \in CountInputs
    /\ pre = <<>>
    /\ err = FALSE
    /\ ret = None

\* count_covered_locations(arg.sensors, arg.row)
CountCovered ==
    /\ op = "none"
    /\ LET r == count_covered_locations(arg.sensors, arg.row) IN
        /\ ret' = (IF r.err THEN None ELSE r.value)
        /\ err' = r.err
    /\ op' = "count_covered_locations"
    /\ UNCHANGED <<ranges, arg, pre>>

NextCount == CountCovered

SpecCount == InitCount /\ [][NextCount]_vars

\* Sensors, beacons and the searched region of find_uncovered_positions lie
\* in 0..MaxGrid, with at most MaxSensors sensors.
MaxGrid == 1

MaxSensors == 2

GridPos == {Pos(x, y) : x \in 0..MaxGrid, y \in 0..MaxGrid}

GridSensors == {Sensor(p, b) : p \in GridPos, b \in GridPos}

GridRanges == {r \in (0..MaxGrid) \X (0..MaxGrid) : r[1] <= r[2]}

FindInputs ==
    [sensors : UNION {[1..n -> GridSensors] : n \in 0..MaxSensors},
     x_range : GridRanges,
     y_range : GridRanges]

\* find_uncovered_positions by itself, applied to an input chosen at the start.
InitFind ==
    /\ ranges = <<>>
    /\ op = "none"
    /\ arg \in FindInputs
    /\ pre = <<>>
    /\ err = FALSE
    /\ ret = None

\* list(find_uncovered_positions(arg.sensors, arg.x_range, arg.y_range))
FindUncovered ==
    /\ op = "none"
    /\ LET r == find_uncovered_positions(arg.sensors, arg.x_range, arg.y_range) IN
        /\ ret' = (IF r.err THEN None ELSE r.value)
        /\ err' = r.err
    /\ op' = "find_uncovered_positions"
    /\ UNCHANGED <<ranges, arg, pre>>

NextFind == FindUncovered

SpecFind == InitFind /\ [][NextFind]_vars

TypeOK ==
    /\ op \in {"none", "init", "add", "len", "bool", "iter", "inverse_of",
              "count_covered_locations", "find_uncovered_positions"}
    /\ err \in BOOLEAN

\* ---------------------------------------------------------------------
\* Vocabulary of the properties.

\* The ints a list of ranges covers.
Cover(rs) == UNION {rs[i][1]..rs[i][2] : i \in 1..Len(rs)}

\* Sorted ascending, every range valid, a gap of at least one int between
\* consecutive ranges.
Normalized(rs) ==
    /\ \A i \in 1..Len(rs) : rs[i][1] <= rs[i][2]
    /\ \A i \in 1..(Len(rs) - 1) : rs[i][1] < rs[i + 1][1] /\ rs[i][2] + 1 < rs[i + 1][1]

\* A list of ints in strictly ascending order.
Ascending(xs) == \A i \in 1..(Len(xs) - 1) : xs[i] < xs[i + 1]

Elems(xs) == {xs[i] : i \in 1..Len(xs)}

ValidRange(r) == r[1] <= r[2]

\* C1: after construction and after every add, self.ranges is sorted by
\* lower bound, every stored range has lo <= hi, and consecutive ranges
\* a, b satisfy a.hi + 1 < b.lo; the same holds of a RangeSet inverse_of
\* returns, which is built by the same adds.
C1_Normalized ==
    /\ Normalized(ranges)
    /\ (op = "inverse_of" /\ ~err) => Normalized(ret)

\* An add that bridged two stored ranges and left another one apart.
C1_Witness ==
    /\ op = "add" /\ ~err
    /\ Len(pre) = 3 /\ Len(ranges) = 2
    /\ Normalized(ranges)

\* C2: for a valid bound, inverse_of returns exactly the ints of the
\* bound that no range of S covers.
C2_ExactComplement ==
    (op = "inverse_of" /\ ValidRange(arg))
        => (~err /\ Cover(ret) = (arg[1]..arg[2]) \ Cover(ranges))

\* C3: the complement of an empty RangeSet within a valid bound is the
\* bound itself, as a single range.
C3_EmptyGivesBound ==
    (op = "inverse_of" /\ ranges = <<>> /\ ValidRange(arg))
        => (~err /\ ret = <<arg>>)

\* C4: when the bound contains every range of S,
\* len(S) + len(S.inverse_of(B)) = bhi - blo + 1.
C4_RoundTrip ==
    (op = "inverse_of" /\ ValidRange(arg)
        /\ \A i \in 1..Len(ranges) : arg[1] <= ranges[i][1] /\ ranges[i][2] <= arg[2])
        => (~err /\ len(ranges) + len(ret) = arg[2] - arg[1] + 1)

\* C5: RangeSet(batch).ranges is the normalized representation of the
\* union of the batch: it covers exactly the ints of the batch's ranges,
\* and it is sorted with a gap between consecutive ranges (so touching
\* and overlapping ranges are merged, separated ones are not); the three
\* documented batches give the documented lists.
C5_UnionNormalized ==
    op = "init" =>
        /\ ~err
        /\ Cover(ranges) = Cover(arg)
        /\ Normalized(ranges)
        /\ (arg = <<<<3, 5>>, <<7, 8>>>> => ranges = <<<<3, 5>>, <<7, 8>>>>)
        /\ (arg = <<<<3, 7>>, <<5, 8>>>> => ranges = <<<<3, 8>>>>)
        /\ (arg = <<<<1, 5>>, <<1, 3>>>> => ranges = <<<<1, 5>>>>)

\* The constructor has merged the overlapping batch [(3, 7), (5, 8)].
C5_Witness ==
    /\ op = "init" /\ ~err
    /\ arg = <<<<3, 7>>, <<5, 8>>>>
    /\ ranges = <<<<3, 8>>>>

\* C6: add((lo, hi)) with lo > hi raises and leaves self.ranges as it
\* was; the constructor raises on a batch that contains such a range.
C6_BadRangeFails ==
    /\ (op = "add" /\ ~ValidRange(arg)) => (err /\ ranges = pre)
    /\ (op = "init" /\ \E i \in 1..Len(arg) : ~ValidRange(arg[i])) => err

\* An inverted range was refused by a RangeSet that holds ranges.
C6_Witness ==
    /\ op = "add" /\ ~ValidRange(arg)
    /\ err
    /\ Len(pre) >= 2 /\ ranges = pre

\* C7: for an inverted bound, inverse_of returns an empty RangeSet and
\* does not raise.
C7_InvertedBoundEmpty ==
    (op = "inverse_of" /\ ~ValidRange(arg))
        => (~err /\ ret = <<>> /\ len(ret) = 0)

\* C8: when S covers every int of a valid bound, inverse_of returns an
\* empty RangeSet: no ranges, len 0, bool False, nothing to iterate.
C8_CoveredBoundEmpty ==
    (op = "inverse_of" /\ ValidRange(arg) /\ (arg[1]..arg[2]) \subseteq Cover(ranges))
        => (~err /\ ret = <<>> /\ len(ret) = 0 /\ ~bool(ret) /\ iter(ret) = <<>>)

\* The bound lies strictly inside one range of a RangeSet of several.
C8_Witness ==
    /\ op = "inverse_of" /\ ~err /\ ValidRange(arg)
    /\ Len(ranges) >= 2
    /\ \E i \in 1..Len(ranges) : ranges[i][1] < arg[1] /\ arg[2] < ranges[i][2]
    /\ ret = <<>>

\* C9: len() is the number of ints the iteration produces, and the
\* iteration produces each covered int once, in strictly ascending order.
C9_LenIsIterCount ==
    /\ len(ranges) = Len(iter(ranges))
    /\ Ascending(iter(ranges))
    /\ Elems(iter(ranges)) = Cover(ranges)
    /\ op = "len" => ret = Len(iter(ranges))
    /\ op = "iter" => (Len(ret) = len(ranges) /\ Ascending(ret) /\ Elems(ret) = Cover(ranges))

\* A RangeSet of several ranges, one of them longer than one int, was iterated.
C9_Witness ==
    /\ op = "iter"
    /\ Len(ranges) >= 2
    /\ Len(ret) > Len(ranges)
    /\ Len(ret) = len(ranges)

\* C10: adding a valid range whose ints S already covers changes neither
\* self.ranges nor len(S).
C10_AddCoveredIdempotent ==
    (op = "add" /\ ValidRange(arg) /\ (arg[1]..arg[2]) \subseteq Cover(pre))
        => (~err /\ ranges = pre /\ len(ranges) = len(pre))

\* A range lying strictly inside a stored range was added to a RangeSet of several.
C10_Witness ==
    /\ op = "add" /\ ~err
    /\ Len(pre) >= 2
    /\ \E i \in 1..Len(pre) : pre[i][1] < arg[1] /\ arg[2] < pre[i][2]
    /\ ranges = pre

\* C11: for a single sensor whose radius on the row is
\* d = manhattan_distance(pos, nearest_beacon) - |pos.y - row|,
\* count_covered_locations returns 2d + 1 when d >= 0 and 0 when d < 0;
\* sensor (8, 7) with beacon (2, 10) on row 10 gives 13.
C11_SingleSensorCount ==
    op = "count_covered_locations" =>
        LET sensor == arg.sensors[1]
            d == manhattan_distance(sensor.pos, sensor.nearest_beacon)
                    - Abs(sensor.pos.y - arg.row)
        IN /\ ~err
           /\ d >= 0 => ret = 2 * d + 1
           /\ d < 0 => ret = 0
           /\ (sensor = Sensor(Pos(8, 7), Pos(2, 10)) /\ arg.row = 10) => ret = 13

\* The documented sensor was counted on row 10.
C11_Witness ==
    /\ op = "count_covered_locations" /\ ~err
    /\ arg = [sensors |-> <<Sensor(Pos(8, 7), Pos(2, 10))>>, row |-> 10]
    /\ ret = 13

\* A sensor that does not reach the row was counted.
C11_WitnessOutOfReach ==
    /\ op = "count_covered_locations" /\ ~err
    /\ manhattan_distance(arg.sensors[1].pos, arg.sensors[1].nearest_beacon)
          < Abs(arg.sensors[1].pos.y - arg.row)
    /\ ret = 0

\* The positions of the region that no sensor covers: farther from every
\* sensor than that sensor's nearest beacon.
Uncovered(sensors, x_range, y_range) ==
    {p \in {Pos(x, y) : x \in x_range[1]..x_range[2], y \in y_range[1]..y_range[2]} :
        \A i \in 1..Len(sensors) :
            manhattan_distance(p, sensors[i].pos)
                > manhattan_distance(sensors[i].pos, sensors[i].nearest_beacon)}

\* Rows in increasing y, x ascending within a row.
RowMajor(ps) ==
    \A i \in 1..(Len(ps) - 1) :
        ps[i].y < ps[i + 1].y \/ (ps[i].y = ps[i + 1].y /\ ps[i].x < ps[i + 1].x)

\* C12: find_uncovered_positions yields exactly the positions of the
\* region that no sensor covers, each once, rows in increasing y and x
\* ascending within a row.
C12_ExactlyUncovered ==
    op = "find_uncovered_positions" =>
        /\ ~err
        /\ Elems(ret) = Uncovered(arg.sensors, arg.x_range, arg.y_range)
        /\ RowMajor(ret)
====
